---- MODULE Spec2Model ----
(***************************************************************************)
(* Trucker Profit System: trip lifecycle, rate locking, expense gate and   *)
(* financial aggregation (app.py, db_handler.py, exchange_rate_service.py).*)
(*                                                                         *)
(* Conventions.                                                            *)
(*  - Python values are tagged records: NoneV is None, Rat(n, d) is the    *)
(*    number n/d, Time(m) is a datetime m minutes after the epoch of the   *)
(*    model.  Arithmetic on numbers is exact rational arithmetic; the      *)
(*    rounding of Python floats is not modelled.                           *)
(*  - A trip's _id is its index in the trips collection.  driver_id holds  *)
(*    str(driver_id), so an unassigned trip has driver_id "None".          *)
(*  - A session key that is absent holds "".  In a session that passes    *)
(*    validate_session the role is the role of user_id, so the handlers    *)
(*    take the actor (session['user_id']) and read the role off it.        *)
(*  - Document fields that no handler below reads back (trip_number,       *)
(*    cities, dates, category, description, receipt, created_at) are left  *)
(*    out of the documents.                                                *)
(***************************************************************************)
EXTENDS Integers, Sequences, FiniteSets, TLC

VARIABLES
    trips,      \* the trips collection: a sequence of trip documents
    units,      \* the units collection: a sequence of unit documents
    settings,   \* the settings collection: a sequence of settings documents
    cache,      \* ExchangeRateService._cache
    now,        \* datetime.utcnow(), in minutes
    lastOp,     \* the request handled last and its outcome
    hist,       \* ghost: per trip, the first completed_at written
    session,    \* the Flask session of the client
    procs       \* the handlers, threads and readers that run concurrently

vars == <<trips, units, settings, cache, now, lastOp, hist, session, procs>>

-----------------------------------------------------------------------------
(* Bounds of the model *)

MaxTrips == 1

MaxExpenses == 2

MaxUnits == 1

MaxUnitExpenses == 1

MaxTime == 1500

MaxCacheAge == 120

(* Program constants, in minutes *)

GRACE_WINDOW == 1440

CACHE_DURATION == 60

-----------------------------------------------------------------------------
(* Values *)

NoneV == [k |-> "none"]

Time(m) == [k |-> "time", t |-> m]

Abs(x) == IF x < 0 THEN -x ELSE x

RECURSIVE Gcd(_, _)
Gcd(a, b) == IF b = 0 THEN a ELSE Gcd(b, a % b)

(* the number n/d in lowest terms with a positive denominator *)
Rat(n, d) ==
    LET g == Gcd(Abs(n), Abs(d))
        s == IF d < 0 THEN -1 ELSE 1
    IN  [k |-> "num", n |-> (s * n) \div g, d |-> (s * d) \div g]

IsNum(v) == v.k = "num"

RAdd(a, b) == Rat(a.n * b.d + b.n * a.d, a.d * b.d)

RSub(a, b) == Rat(a.n * b.d - b.n * a.d, a.d * b.d)

RMul(a, b) == Rat(a.n * b.n, a.d * b.d)

RDiv(a, b) == Rat(a.n * b.d, a.d * b.n)

Zero == Rat(0, 1)

(* Python truthiness of a value: None and 0 are false *)
Truthy(v) == IF IsNum(v) THEN v.n # 0 ELSE v # NoneV

(* float(x) of a value: the number, or a TypeError for None *)
FloatOk(v) == IsNum(v)

(* a value that is not a number: float(x) raises ValueError or TypeError *)
Text == [k |-> "str"]

Positive(v) == IsNum(v) /\ v.n > 0

-----------------------------------------------------------------------------
(* Inputs *)

Drivers == {"d1", "d2"}

Actors == {"owner"} \cup Drivers

RoleOf(actor) == IF actor = "owner" THEN "owner" ELSE "driver"

TripIds == 1..MaxTrips

UnitIds == 1..MaxUnits

(* request.form.get("status", "active"): the form value is stored as sent *)
FormStatuses == {"active", "completed", "pending"}

FormDrivers == {"None", "d1"}

PaymentInputs == {[amount |-> Rat(1000, 1), currency |-> "USD"],
                  [amount |-> Rat(270, 1), currency |-> "CAD"]}

ExpenseInputs == {[amount |-> Rat(135, 1), currency |-> "CAD"],
                  [amount |-> Rat(50, 1), currency |-> "USD"]}

(* what one call of the configured provider yields: None on any failure *)
FetchResults == {NoneV, Rat(140, 100), Rat(150, 100)}

(* the clock jumps 24 or 25 hours *)
TickSteps == {1440, 1500}

DEFAULT_EXCHANGE_RATE == Rat(135, 100)

(* the values db.get_exchange_rate() may hold *)
CurrentRates == {Rat(135, 100), Rat(140, 100), Rat(150, 100)}

FALLBACK_RATE == Rat(135, 100)

(* arguments of convert_to_primary: a missing amount or rate is None, a
   missing currency is the empty string (None and "" are both replaced by
   "USD"), a currency is a string in either case *)
AmountInputs == {NoneV, Text, Zero, Rat(135, 1), Rat(-50, 1)}

CurrencyInputs == {"", "USD", "CAD", "usd", "cad", "EUR"}

RateInputs == {NoneV, Text, Zero, Rat(135, 100), Rat(3, 2)}

-----------------------------------------------------------------------------
(* Conversion engine *)

Upper(c) == CASE c = "usd" -> "USD" [] c = "cad" -> "CAD" [] OTHER -> c

OrUSD(c) == IF c = "" THEN "USD" ELSE c

(* an exception leaving convert_to_primary *)
Raised == [k |-> "raise"]

(* a convert_to_primary that tests the rate before it compares the currencies *)
ConvertToPrimaryRateFirst(amount, from_currency, exchange_rate, primary_currency) ==
    LET amt == IF IsNum(amount) THEN amount ELSE Zero
        from_curr == Upper(OrUSD(from_currency))
        primary_curr == Upper(OrUSD(primary_currency))
    IN  IF ~FloatOk(exchange_rate) THEN Zero
        ELSE IF exchange_rate.n = 0 THEN Zero
        ELSE IF from_curr = primary_curr THEN amt
        ELSE IF primary_curr = "USD" /\ from_curr = "CAD" THEN RDiv(amt, exchange_rate)
        ELSE IF primary_curr = "CAD" /\ from_curr = "USD" THEN RMul(amt, exchange_rate)
        ELSE amt

(* a convert_to_primary with the two directions exchanged *)
ConvertToPrimarySwapped(amount, from_currency, exchange_rate, primary_currency) ==
    LET amt == IF IsNum(amount) THEN amount ELSE Zero
        from_curr == Upper(OrUSD(from_currency))
        primary_curr == Upper(OrUSD(primary_currency))
    IN  IF from_curr = primary_curr THEN amt
        ELSE IF ~FloatOk(exchange_rate) THEN Zero
        ELSE IF exchange_rate.n = 0 THEN Zero
        ELSE IF primary_curr = "USD" /\ from_curr = "CAD" THEN RMul(amt, exchange_rate)
        ELSE IF primary_curr = "CAD" /\ from_curr = "USD" THEN RDiv(amt, exchange_rate)
        ELSE amt

(* a convert_to_primary without the test er == 0: the division raises *)
ConvertToPrimaryNoZeroGuard(amount, from_currency, exchange_rate, primary_currency) ==
    LET amt == IF IsNum(amount) THEN amount ELSE Zero
        from_curr == Upper(OrUSD(from_currency))
        primary_curr == Upper(OrUSD(primary_currency))
    IN  IF from_curr = primary_curr THEN amt
        ELSE IF ~FloatOk(exchange_rate) THEN Zero
        ELSE IF primary_curr = "USD" /\ from_curr = "CAD"
             THEN IF exchange_rate.n = 0 THEN Raised ELSE RDiv(amt, exchange_rate)
        ELSE IF primary_curr = "CAD" /\ from_curr = "USD" THEN RMul(amt, exchange_rate)
        ELSE amt

(* a convert_to_primary that multiplies in both directions *)
ConvertToPrimaryAlwaysMultiply(amount, from_currency, exchange_rate, primary_currency) ==
    LET amt == IF IsNum(amount) THEN amount ELSE Zero
        from_curr == Upper(OrUSD(from_currency))
        primary_curr == Upper(OrUSD(primary_currency))
    IN  IF from_curr = primary_curr THEN amt
        ELSE IF ~FloatOk(exchange_rate) THEN Zero
        ELSE IF exchange_rate.n = 0 THEN Zero
        ELSE IF primary_curr = "USD" /\ from_curr = "CAD" THEN RMul(amt, exchange_rate)
        ELSE IF primary_curr = "CAD" /\ from_curr = "USD" THEN RMul(amt, exchange_rate)
        ELSE amt

ConvertToPrimary(amount, from_currency, exchange_rate, primary_currency) ==
    LET amt == IF IsNum(amount) THEN amount ELSE Zero
        from_curr == Upper(OrUSD(from_currency))
        primary_curr == Upper(OrUSD(primary_currency))
    IN  IF from_curr = primary_curr THEN amt
        ELSE IF ~FloatOk(exchange_rate) THEN Zero
        ELSE IF exchange_rate.n = 0 THEN Zero
        ELSE IF primary_curr = "USD" /\ from_curr = "CAD" THEN RDiv(amt, exchange_rate)
        ELSE IF primary_curr = "CAD" /\ from_curr = "USD" THEN RMul(amt, exchange_rate)
        ELSE amt

-----------------------------------------------------------------------------
(* Rate provider *)

(* a cache still taken as valid at the age of exactly one hour *)
CacheFreshAtOneHour(c, t) ==
    /\ Truthy(c.rate)
    /\ c.timestamp # NoneV
    /\ t - c.timestamp.t <= CACHE_DURATION

CacheFresh(c, t) ==
    /\ Truthy(c.rate)
    /\ c.timestamp # NoneV
    /\ t - c.timestamp.t < CACHE_DURATION

(* a get_live_rate that caches the fetched rate under the old timestamp *)
GetLiveRateKeepsTimestamp(c, t, fetched) ==
    IF CacheFresh(c, t) THEN [rate |-> c.rate, cache |-> c, fetch_calls |-> 0]
    ELSE IF Truthy(fetched)
         THEN [rate |-> fetched,
               cache |-> [rate |-> fetched, timestamp |-> c.timestamp],
               fetch_calls |-> 1]
    ELSE IF Truthy(c.rate) THEN [rate |-> c.rate, cache |-> c, fetch_calls |-> 1]
    ELSE [rate |-> FALLBACK_RATE, cache |-> c, fetch_calls |-> 1]

(* a get_live_rate that drops a stale cache when the fetch fails *)
GetLiveRateDropsStale(c, t, fetched) ==
    IF CacheFresh(c, t) THEN [rate |-> c.rate, cache |-> c, fetch_calls |-> 0]
    ELSE IF Truthy(fetched)
         THEN [rate |-> fetched,
               cache |-> [rate |-> fetched, timestamp |-> Time(t)],
               fetch_calls |-> 1]
    ELSE [rate |-> FALLBACK_RATE,
          cache |-> [rate |-> NoneV, timestamp |-> NoneV],
          fetch_calls |-> 1]

(* a get_live_rate without the default of its last line *)
GetLiveRateNoDefault(c, t, fetched) ==
    IF CacheFresh(c, t) THEN [rate |-> c.rate, cache |-> c, fetch_calls |-> 0]
    ELSE IF Truthy(fetched)
         THEN [rate |-> fetched,
               cache |-> [rate |-> fetched, timestamp |-> Time(t)],
               fetch_calls |-> 1]
    ELSE [rate |-> c.rate, cache |-> c, fetch_calls |-> 1]

(* get_live_rate at time t when _fetch_from_api would answer fetched: the
   rate returned, the cache left behind and the number of calls of
   _fetch_from_api *)
GetLiveRate(c, t, fetched) ==
    IF CacheFresh(c, t) THEN [rate |-> c.rate, cache |-> c, fetch_calls |-> 0]
    ELSE IF Truthy(fetched)
         THEN [rate |-> fetched,
               cache |-> [rate |-> fetched, timestamp |-> Time(t)],
               fetch_calls |-> 1]
    ELSE IF Truthy(c.rate) THEN [rate |-> c.rate, cache |-> c, fetch_calls |-> 1]
    ELSE [rate |-> FALLBACK_RATE, cache |-> c, fetch_calls |-> 1]

(* EXCHANGE_RATE_API_PROVIDER and EXCHANGE_RATE_API_KEY of the environment *)
Providers == {"exchangerate-api", "FIXER", "openexchangerates", "ecb"}

ApiKeys == {"", "key"}

Lower(p) == IF p = "FIXER" THEN "fixer" ELSE p

(* what the HTTP request to a source yields: an exception (timeout, status,
   body), a body without rates.CAD, or a body with the rate *)
HttpError == [k |-> "error"]

NoCadInBody == [k |-> "nocad"]

Payloads == {HttpError, NoCadInBody, Rat(140, 100), Rat(150, 100)}

(* _fetch_from_exchangerate_api, _fetch_from_fixer, _fetch_from_openexchangerates:
   data.get("rates", {}).get("CAD", 1.35), or None on any exception *)
FetchFromSource(payload) ==
    IF payload = HttpError THEN NoneV
    ELSE IF payload = NoCadInBody THEN Rat(135, 100)
    ELSE payload

(* _fetch_from_api: the value returned and the sources an HTTP request was
   sent to, in order *)
FetchFromApi(env_provider, api_key, payload) ==
    LET provider == Lower(env_provider) IN
    IF provider = "exchangerate-api"
    THEN [value |-> FetchFromSource(payload), requests |-> <<provider>>]
    ELSE IF provider \in {"fixer", "openexchangerates"}
    THEN IF api_key = ""
         THEN [value |-> NoneV, requests |-> <<>>]
         ELSE [value |-> FetchFromSource(payload), requests |-> <<provider>>]
    ELSE [value |-> NoneV, requests |-> <<>>]

(* a reset_cache that forgets the timestamp only *)
ResetCacheKeepsRate(c) == [c EXCEPT !.timestamp = NoneV]

(* reset_cache: the cache it installs in place of c *)
ResetCacheValue(c) == [rate |-> NoneV, timestamp |-> NoneV]

-----------------------------------------------------------------------------
(* Record store *)

(* DBHandler.__init__: the settings document it inserts *)
DefaultSettings == [exchange_rate |-> DEFAULT_EXCHANGE_RATE, primary_currency |-> "USD"]

(* a session without any key; an absent key is the empty string *)
NoSession == [user_id |-> "", user_role |-> "", user_name |-> ""]

(* 'user_id' in session *)
HasUserId(sess) == sess.user_id # ""

(* ObjectId(s) accepts a 24-digit hexadecimal string: the drivers' ids are
   such strings; "owner", "bogus" and "" are not *)
ObjectIdOk(id) == id \in {"d1", "d2"}

(* a validate_session that lets the owner role go with any user_id *)
ValidateSessionAnyOwnerId(sess) ==
    /\ sess.user_id # "" /\ sess.user_role # "" /\ sess.user_name # ""
    /\ sess.user_role \in {"owner", "driver"}
    /\ sess.user_role = "driver" => ObjectIdOk(sess.user_id)

(* validate_session *)
ValidateSession(sess) ==
    /\ sess.user_id # "" /\ sess.user_role # "" /\ sess.user_name # ""
    /\ sess.user_role \in {"owner", "driver"}
    /\ ~(sess.user_role = "owner" /\ sess.user_id # "owner")
    /\ sess.user_role = "driver" => ObjectIdOk(sess.user_id)

(* before_request *)
public_routes == {"login", "logout", "static", "uploaded_file"}

BeforeRequest(endpoint, sess) ==
    IF endpoint \in public_routes THEN "pass"
    ELSE IF ~HasUserId(sess) THEN "no_session"
    ELSE IF ~ValidateSession(sess) THEN "invalid_session"
    ELSE "pass"

(* the first two tests of require_login, require_owner and require_driver *)
RequireLogin(sess) == HasUserId(sess) /\ ValidateSession(sess)

TripExists(id) == id \in 1..Len(trips)

(* db.get_trip: the document, or None *)
GetTrip(id) == IF TripExists(id) THEN trips[id] ELSE NoneV

(* db.get_exchange_rate *)
GetExchangeRate == settings[1].exchange_rate

(* db.get_primary_currency *)
GetPrimaryCurrency == settings[1].primary_currency

(* an update_trip that leaves the rate to a later write *)
UpdateTripWithoutRate(id, status, completed_at, rate) ==
    IF TripExists(id)
    THEN [trips EXCEPT ![id].status = status,
                       ![id].completed_at = completed_at]
    ELSE trips

(* db.update_trip with {"$set": fields}: no document matches a missing id *)
UpdateTrip(id, status, completed_at, rate) ==
    IF TripExists(id)
    THEN [trips EXCEPT ![id].status = status,
                       ![id].completed_at = completed_at,
                       ![id].exchange_rate_at = rate]
    ELSE trips

(* an add_trip_expense that puts the new expense first *)
AddTripExpenseInFront(id, expense) ==
    IF TripExists(id)
    THEN [trips EXCEPT ![id].expenses = <<expense>> \o @]
    ELSE trips

(* db.add_trip_expense with {"$push": {"expenses": expense}} *)
AddTripExpense(id, expense) ==
    IF TripExists(id)
    THEN [trips EXCEPT ![id].expenses = Append(@, expense)]
    ELSE trips

(* db.add_unit_expense with {"$push": {"expenses": expense}} *)
AddUnitExpenseDoc(id, expense) ==
    IF id \in 1..Len(units)
    THEN [units EXCEPT ![id].expenses = Append(@, expense)]
    ELSE units

-----------------------------------------------------------------------------
(* Access control *)

RequireOwner(actor) == RoleOf(actor) = "owner"

RequireDriver(actor) == RoleOf(actor) = "driver"

(* an is_allowed that holds the owner to the driver's window *)
IsAllowedOwnerGated(actor, trip, t) ==
    IF RoleOf(actor) = "owner" \/ trip.driver_id = actor
    THEN \/ trip.status # "completed"
         \/ /\ trip.completed_at # NoneV
            /\ t - trip.completed_at.t <= GRACE_WINDOW
    ELSE FALSE

(* add_expense: is_allowed *)
IsAllowed(actor, trip, t) ==
    IF RoleOf(actor) = "owner" THEN TRUE
    ELSE IF RoleOf(actor) = "driver" /\ trip.driver_id = actor
    THEN \/ trip.status # "completed"
         \/ /\ trip.completed_at # NoneV
            /\ t - trip.completed_at.t <= GRACE_WINDOW
    ELSE FALSE

(* trip_detail: can_add_expense *)
CanAddExpense(actor, trip, t) ==
    IF RoleOf(actor) = "owner" THEN TRUE
    ELSE IF RoleOf(actor) = "driver" /\ trip.driver_id = actor
    THEN IF trip.status # "completed" THEN TRUE
         ELSE /\ trip.completed_at # NoneV
              /\ t - trip.completed_at.t <= GRACE_WINDOW
    ELSE FALSE

(* a driver_mark_complete that forgets the assignment check *)
DriverOwnsTripAnyDriver(actor, id) == GetTrip(id) # NoneV

(* driver_mark_complete: the trip exists and is assigned to the caller *)
DriverOwnsTrip(actor, id) ==
    /\ GetTrip(id) # NoneV
    /\ GetTrip(id).driver_id = actor

-----------------------------------------------------------------------------
(* Financial aggregation.  cur is db.get_exchange_rate(), primary is
   db.get_primary_currency(), both read once at the top of each handler. *)

(* owner_dashboard, the totals loop: rate_for_trip *)
DashboardTotalsRate(t, cur) ==
    IF t.status = "completed" /\ Truthy(t.exchange_rate_at)
    THEN t.exchange_rate_at ELSE cur

(* owner_dashboard, the recent-trips loop: rate *)
RecentTripsRate(t, cur) ==
    IF t.status = "completed" THEN t.exchange_rate_at ELSE cur

(* all_trips: rate *)
AllTripsRate(t, cur) ==
    IF t.status = "completed" THEN t.exchange_rate_at ELSE cur

(* trip_detail: rate_for_trip = trip.get("exchange_rate_at") or exchange_rate *)
TripDetailRate(t, cur) ==
    IF Truthy(t.exchange_rate_at) THEN t.exchange_rate_at ELSE cur

(* driver_profile: rate *)
DriverProfileRate(t, cur) ==
    IF t.status = "completed" THEN t.exchange_rate_at ELSE cur

(* unit_detail: rate of a trip of the unit *)
UnitDetailRate(t, cur) ==
    IF t.status = "completed" THEN t.exchange_rate_at ELSE cur

(* sum(convert_to_primary(e.amount, e.currency, rate, primary) for e in expenses) *)
RECURSIVE SumExpenses(_, _, _)
SumExpenses(expenses, rate, primary) ==
    IF expenses = <<>> THEN Zero
    ELSE RAdd(ConvertToPrimary(Head(expenses).amount, Head(expenses).currency, rate, primary),
              SumExpenses(Tail(expenses), rate, primary))

(* an all_trips row that values the expenses with the current rate *)
AllTripsRowMixedRates(t, cur, primary) ==
    LET rate == AllTripsRate(t, cur)
        payment_primary == ConvertToPrimary(t.payment_usd, "USD", rate, primary)
        expenses_primary == SumExpenses(t.expenses, cur, primary)
    IN  [payment_primary |-> payment_primary,
         expenses_primary |-> expenses_primary,
         profit_primary |-> RSub(payment_primary, expenses_primary)]

(* units and unit_detail: the expenses of a unit, always at the current rate *)
UnitExpensesPrimary(u, cur, primary) == SumExpenses(u.expenses, cur, primary)

(* all_trips: one row of trips_processed *)
AllTripsRow(t, cur, primary) ==
    LET rate == AllTripsRate(t, cur)
        payment_primary == ConvertToPrimary(t.payment_usd, "USD", rate, primary)
        expenses_primary == SumExpenses(t.expenses, rate, primary)
    IN  [payment_primary |-> payment_primary,
         expenses_primary |-> expenses_primary,
         profit_primary |-> RSub(payment_primary, expenses_primary)]

(* trip_detail: expenses_display, then the three figures of the page *)
TripDetailPage(t, cur, primary) ==
    LET rate_for_trip == TripDetailRate(t, cur)
        expenses_display ==
            [i \in 1..Len(t.expenses) |->
                [original_amount |-> t.expenses[i].amount,
                 original_currency |-> t.expenses[i].currency,
                 converted_amount |-> ConvertToPrimary(t.expenses[i].amount,
                                         t.expenses[i].currency, rate_for_trip, primary)]]
        payment_primary == ConvertToPrimary(t.payment_usd, "USD", rate_for_trip, primary)
        total_expenses_primary ==
            LET RECURSIVE Total(_)
                Total(n) == IF n = 0 THEN Zero
                            ELSE RAdd(Total(n - 1), expenses_display[n].converted_amount)
            IN  Total(Len(expenses_display))
    IN  [payment_primary |-> payment_primary,
         expenses_primary |-> total_expenses_primary,
         profit_primary |-> RSub(payment_primary, total_expenses_primary),
         locked_rate |-> t.exchange_rate_at,
         current_rate |-> cur]

(* owner_dashboard: the profit of one row of recent_trips *)
RecentTripsProfit(t, cur, primary) ==
    LET rate == RecentTripsRate(t, cur)
    IN  RSub(ConvertToPrimary(t.payment_usd, "USD", rate, primary),
             SumExpenses(t.expenses, rate, primary))

(* driver_profile: one row of trips_display *)
DriverProfileRow(t, cur, primary) ==
    LET rate == DriverProfileRate(t, cur)
        payment_primary == ConvertToPrimary(t.payment_usd, "USD", rate, primary)
        expenses_primary == SumExpenses(t.expenses, rate, primary)
    IN  [payment_primary |-> payment_primary,
         expenses_primary |-> expenses_primary,
         profit_primary |-> RSub(payment_primary, expenses_primary)]

(* owner_dashboard: stats, from the loop over the trips and the loop over the
   units *)
OwnerDashboardStats(all_trips, all_units, cur, primary) ==
    LET RECURSIVE Revenue(_)
        Revenue(n) ==
            IF n = 0 THEN Zero
            ELSE LET t == all_trips[n]
                     payment_usd == IF Truthy(t.payment_usd) THEN t.payment_usd ELSE Zero
                 IN  RAdd(Revenue(n - 1),
                          ConvertToPrimary(payment_usd, "USD",
                                           DashboardTotalsRate(t, cur), primary))
        RECURSIVE TripExpenses(_)
        TripExpenses(n) ==
            IF n = 0 THEN Zero
            ELSE LET t == all_trips[n]
                 IN  RAdd(TripExpenses(n - 1),
                          SumExpenses(t.expenses, DashboardTotalsRate(t, cur), primary))
        RECURSIVE UnitExpenses(_)
        UnitExpenses(n) ==
            IF n = 0 THEN Zero
            ELSE RAdd(UnitExpenses(n - 1),
                      SumExpenses(all_units[n].expenses, cur, primary))
        total_revenue_primary == Revenue(Len(all_trips))
        total_expenses_primary == RAdd(TripExpenses(Len(all_trips)),
                                       UnitExpenses(Len(all_units)))
    IN  [total_revenue_primary |-> total_revenue_primary,
         total_expenses_primary |-> total_expenses_primary,
         net_primary |-> RSub(total_revenue_primary, total_expenses_primary),
         primary_currency |-> primary]

-----------------------------------------------------------------------------
(* Requests.  Every handler records the request and its outcome in lastOp:
   "ok" (the success flash), "denied" (a role decorator refused the caller),
   "not_found", "not_allowed", "not_found_or_not_assigned" (the error flashes). *)

Op(op, actor, id, outcome) ==
    [op |-> op, actor |-> actor, trip |-> id, outcome |-> outcome]

NoOp == Op("none", "none", 0, "none")

(* ghost: remember the first completed_at written to trip id *)
Remember(id, completed_at) ==
    IF id \in 1..Len(hist) /\ hist[id] = NoneV
    THEN [hist EXCEPT ![id] = completed_at]
    ELSE hist

Denied(op, actor, id) ==
    /\ lastOp' = Op(op, actor, id, "denied")
    /\ UNCHANGED <<trips, units, settings, cache, now, hist, session, procs>>

(* new_trip, POST *)
NewTrip(actor, payment, driver, status) ==
    IF ~RequireOwner(actor) THEN Denied("new_trip", actor, 0)
    ELSE
    /\ Len(trips) < MaxTrips
    /\ LET payment_usd == IF payment.currency = "CAD"
                          THEN RDiv(payment.amount, GetExchangeRate)
                          ELSE payment.amount
           trip_doc == [driver_id |-> driver,
                        payment_usd |-> payment_usd,
                        status |-> status,
                        expenses |-> <<>>,
                        completed_at |-> NoneV,
                        exchange_rate_at |-> NoneV]
       IN  /\ trips' = Append(trips, trip_doc)
           /\ hist' = Append(hist, NoneV)
    /\ lastOp' = Op("new_trip", actor, Len(trips) + 1, "ok")
    /\ UNCHANGED <<units, settings, cache, now, session, procs>>

(* new_trip, GET: the form shows ExchangeRateService.get_live_rate() *)
NewTripForm(actor, fetched) ==
    IF ~RequireOwner(actor) THEN Denied("new_trip_form", actor, 0)
    ELSE
    /\ cache' = GetLiveRate(cache, now, fetched).cache
    /\ lastOp' = Op("new_trip_form", actor, 0, "ok")
    /\ UNCHANGED <<trips, units, settings, now, hist, session, procs>>

(* add_expense *)
AddExpense(actor, id, expense) ==
    LET trip == GetTrip(id) IN
    IF trip = NoneV
    THEN /\ lastOp' = Op("add_expense", actor, id, "not_found")
         /\ UNCHANGED <<trips, units, settings, cache, now, hist, session, procs>>
    ELSE IF ~IsAllowed(actor, trip, now)
    THEN /\ lastOp' = Op("add_expense", actor, id, "not_allowed")
         /\ UNCHANGED <<trips, units, settings, cache, now, hist, session, procs>>
    ELSE /\ Len(trip.expenses) < MaxExpenses
         /\ trips' = AddTripExpense(id, expense)
         /\ lastOp' = Op("add_expense", actor, id, "ok")
         /\ UNCHANGED <<units, settings, cache, now, hist, session, procs>>

(* mark_complete *)
MarkComplete(actor, id, fetched) ==
    IF ~RequireOwner(actor) THEN Denied("mark_complete", actor, id)
    ELSE
    LET live == GetLiveRate(cache, now, fetched) IN
    /\ cache' = live.cache
    /\ trips' = UpdateTrip(id, "completed", Time(now), live.rate)
    /\ hist' = Remember(id, Time(now))
    /\ lastOp' = Op("mark_complete", actor, id, "ok")
    /\ UNCHANGED <<units, settings, now, session, procs>>

(* driver_mark_complete *)
DriverMarkComplete(actor, id, fetched) ==
    IF ~RequireDriver(actor) THEN Denied("driver_mark_complete", actor, id)
    ELSE IF ~DriverOwnsTrip(actor, id)
    THEN /\ lastOp' = Op("driver_mark_complete", actor, id, "not_found_or_not_assigned")
         /\ UNCHANGED <<trips, units, settings, cache, now, hist, session, procs>>
    ELSE
    LET live == GetLiveRate(cache, now, fetched) IN
    /\ cache' = live.cache
    /\ trips' = UpdateTrip(id, "completed", Time(now), live.rate)
    /\ hist' = Remember(id, Time(now))
    /\ lastOp' = Op("driver_mark_complete", actor, id, "ok")
    /\ UNCHANGED <<units, settings, now, session, procs>>

(* set_primary_currency *)
SetPrimaryCurrency(actor, form_cur) ==
    IF ~RequireOwner(actor) THEN Denied("set_primary_currency", actor, 0)
    ELSE
    LET cur == IF form_cur \notin {"USD", "CAD"} THEN "USD" ELSE form_cur IN
    /\ settings' = [settings EXCEPT ![1].primary_currency = cur]
    /\ lastOp' = Op("set_primary_currency", actor, 0, "ok")
    /\ UNCHANGED <<trips, units, cache, now, hist, session, procs>>

(* new_unit, POST *)
NewUnit(actor) ==
    IF ~RequireOwner(actor) THEN Denied("new_unit", actor, 0)
    ELSE
    /\ Len(units) < MaxUnits
    /\ units' = Append(units, [expenses |-> <<>>])
    /\ lastOp' = Op("new_unit", actor, Len(units) + 1, "ok")
    /\ UNCHANGED <<trips, settings, cache, now, hist, session, procs>>

(* add_unit_expense: the success flash is shown whether or not the unit exists *)
AddUnitExpense(actor, id, expense) ==
    IF ~RequireOwner(actor) THEN Denied("add_unit_expense", actor, id)
    ELSE
    LET expense_doc == [amount |-> expense.amount, currency |-> Upper(expense.currency)] IN
    /\ id \in 1..Len(units) => Len(units[id].expenses) < MaxUnitExpenses
    /\ units' = AddUnitExpenseDoc(id, expense_doc)
    /\ lastOp' = Op("add_unit_expense", actor, id, "ok")
    /\ UNCHANGED <<trips, settings, cache, now, hist, session, procs>>

(* db.set_exchange_rate, as seed_initial_data calls it *)
SetExchangeRate(rate) ==
    /\ settings' = [settings EXCEPT ![1].exchange_rate = rate]
    /\ lastOp' = Op("set_exchange_rate", "none", 0, "ok")
    /\ UNCHANGED <<trips, units, cache, now, hist, session, procs>>

(* ExchangeRateService.get_live_rate(), called on its own: lastOp keeps the
   cache and the clock the call found, what _fetch_from_api answered, the
   sources it sent a request to, the rate returned and the number of calls of
   _fetch_from_api *)
GetLiveRateCall(env_provider, api_key, payload) ==
    LET api == IF CacheFresh(cache, now)
               THEN [value |-> NoneV, requests |-> <<>>]
               ELSE FetchFromApi(env_provider, api_key, payload)
        live == GetLiveRate(cache, now, api.value)
    IN  /\ cache' = live.cache
        /\ lastOp' = [op |-> "get_live_rate", actor |-> "none", trip |-> 0,
                      outcome |-> "ok",
                      before |-> cache, at |-> now,
                      provider |-> Lower(env_provider),
                      fetched |-> api.value, requests |-> api.requests,
                      rate |-> live.rate, fetch_calls |-> live.fetch_calls]
        /\ UNCHANGED <<trips, units, settings, now, hist, session, procs>>

(* ExchangeRateService.reset_cache() *)
ResetCache ==
    /\ cache' = ResetCacheValue(cache)
    /\ lastOp' = [op |-> "reset_cache", actor |-> "none", trip |-> 0,
                  outcome |-> "ok", before |-> cache]
    /\ UNCHANGED <<trips, units, settings, now, hist, session, procs>>

(* convert_to_primary, called on its own: lastOp keeps the arguments and the
   value returned *)
ConvertCall(amount, from_currency, exchange_rate, primary_currency) ==
    /\ lastOp' = [op |-> "convert_to_primary", actor |-> "none", trip |-> 0,
                  outcome |-> "ok",
                  amount |-> amount, from_currency |-> from_currency,
                  exchange_rate |-> exchange_rate,
                  primary_currency |-> primary_currency,
                  result |-> ConvertToPrimary(amount, from_currency,
                                              exchange_rate, primary_currency)]
    /\ UNCHANGED <<trips, units, settings, cache, now, hist, session, procs>>

(* convert_to_primary applied to its own result: USD to CAD, then the result
   from CAD back to USD, at the same rate *)
RoundTripCall(amount, exchange_rate) ==
    LET there == ConvertToPrimary(amount, "USD", exchange_rate, "CAD")
        back == ConvertToPrimary(there, "CAD", exchange_rate, "USD")
    IN  /\ lastOp' = [op |-> "round_trip", actor |-> "none", trip |-> 0,
                      outcome |-> "ok",
                      amount |-> amount, exchange_rate |-> exchange_rate,
                      there |-> there, back |-> back]
        /\ UNCHANGED <<trips, units, settings, cache, now, hist, session, procs>>

(* DBHandler.__init__, line 89: the handler counts the settings documents *)
BootCount(h) ==
    /\ procs[h].pc = "count"
    /\ procs' = [procs EXCEPT ![h] = [pc |-> "insert", count |-> Len(settings)]]
    /\ UNCHANGED <<trips, units, settings, cache, now, lastOp, hist, session>>

(* DBHandler.__init__, lines 89-94: it inserts the defaults if it counted none *)
BootInsert(h) ==
    /\ procs[h].pc = "insert"
    /\ settings' = IF procs[h].count = 0
                   THEN Append(settings, DefaultSettings)
                   ELSE settings
    /\ procs' = [procs EXCEPT ![h].pc = "ready"]
    /\ UNCHANGED <<trips, units, cache, now, lastOp, hist, session>>

(* get_live_rate run by thread t, statement by statement.  procs.th[t] holds
   the thread's position and its local variable rate; procs.stored_at is a
   ghost: the time at which the rate now in the cache was stored. *)

(* lines 85-89: the test of the cache, and the return of a fresh rate *)
GlrEnter(t) ==
    /\ procs.th[t].pc = "idle"
    /\ procs' = IF CacheFresh(cache, now)
                THEN procs
                ELSE [procs EXCEPT !.th[t].pc = "fetch"]
    /\ lastOp' = Op("get_live_rate", t, 0,
                    IF CacheFresh(cache, now) THEN "cached" ELSE "fetching")
    /\ UNCHANGED <<trips, units, settings, cache, now, hist, session>>

(* lines 92-94: rate = _fetch_from_api(); if rate *)
GlrFetch(t, fetched) ==
    /\ procs.th[t].pc = "fetch"
    /\ procs' = [procs EXCEPT !.th[t] =
                    [pc |-> IF Truthy(fetched) THEN "store_rate" ELSE "use_cached",
                     rate |-> fetched]]
    /\ UNCHANGED <<trips, units, settings, cache, now, lastOp, hist, session>>

(* line 96: _cache["rate"] = rate *)
GlrStoreRate(t) ==
    /\ procs.th[t].pc = "store_rate"
    /\ cache' = [cache EXCEPT !.rate = procs.th[t].rate]
    /\ procs' = [procs EXCEPT !.th[t].pc = "store_timestamp",
                              !.stored_at = Time(now)]
    /\ UNCHANGED <<trips, units, settings, now, lastOp, hist, session>>

(* lines 97-99: _cache["timestamp"] = datetime.utcnow(); return rate *)
GlrStoreTimestamp(t) ==
    /\ procs.th[t].pc = "store_timestamp"
    /\ cache' = [cache EXCEPT !.timestamp = Time(now)]
    /\ procs' = [procs EXCEPT !.th[t].pc = "idle"]
    /\ lastOp' = Op("get_live_rate", t, 0, "fetched")
    /\ UNCHANGED <<trips, units, settings, now, hist, session>>

(* lines 102-108: the stale rate or 1.35 is returned, the cache is not written *)
GlrUseCached(t) ==
    /\ procs.th[t].pc = "use_cached"
    /\ procs' = [procs EXCEPT !.th[t].pc = "idle"]
    /\ lastOp' = Op("get_live_rate", t, 0,
                    IF Truthy(cache.rate) THEN "stale" ELSE "default")
    /\ UNCHANGED <<trips, units, settings, cache, now, hist, session>>

(* reset_cache run by thread t: one assignment to _cache *)
ResetCacheBy(t) ==
    /\ procs.th[t].pc = "idle"
    /\ cache' = ResetCacheValue(cache)
    /\ procs' = [procs EXCEPT !.stored_at = NoneV]
    /\ lastOp' = Op("reset_cache", t, 0, "ok")
    /\ UNCHANGED <<trips, units, settings, now, hist, session>>

(* the session a successful login writes *)
SessionOf(actor) ==
    [user_id |-> actor,
     user_role |-> RoleOf(actor),
     user_name |-> IF actor = "owner" THEN "Owner" ELSE "Driver"]

(* login, POST: the credentials are right or wrong *)
Login(actor, password_ok) ==
    /\ session' = IF password_ok THEN SessionOf(actor) ELSE session
    /\ lastOp' = Op("login", actor, 0, IF password_ok THEN "ok" ELSE "invalid_credentials")
    /\ UNCHANGED <<trips, units, settings, cache, now, hist, procs>>

(* login, GET: the page clears the session *)
LoginPage ==
    /\ session' = NoSession
    /\ lastOp' = Op("login_page", session.user_id, 0, "ok")
    /\ UNCHANGED <<trips, units, settings, cache, now, hist, procs>>

(* logout *)
Logout ==
    /\ session' = NoSession
    /\ lastOp' = Op("logout", session.user_id, 0, "ok")
    /\ UNCHANGED <<trips, units, settings, cache, now, hist, procs>>

(* The session is a cookie signed with app.secret_key, whose default is in
   config.py: the client may come back with any session it signed itself. *)
PresentCookie(sess) ==
    /\ session' = sess
    /\ lastOp' = NoOp
    /\ UNCHANGED <<trips, units, settings, cache, now, hist, procs>>

(* before_request lets the request through to the route *)
Admitted(endpoint) == BeforeRequest(endpoint, session) = "pass"

(* ... and so do the first two tests of the route's decorator *)
AdmittedLogin(endpoint) == Admitted(endpoint) /\ RequireLogin(session)

(* before_request answers with the redirect to login; a session that holds
   user_id and fails validate_session is cleared *)
LoginRedirect(endpoint) ==
    /\ ~Admitted(endpoint)
    /\ session' = IF BeforeRequest(endpoint, session) = "invalid_session"
                  THEN NoSession ELSE session
    /\ lastOp' = Op(endpoint, session.user_id, 0, "login_redirect")
    /\ UNCHANGED <<trips, units, settings, cache, now, hist, procs>>

(* clear_session *)
ClearSession ==
    /\ session' = NoSession
    /\ lastOp' = Op("clear_session", session.user_id, 0, "ok")
    /\ UNCHANGED <<trips, units, settings, cache, now, hist, procs>>

(* check_auth *)
CheckAuth ==
    /\ lastOp' = Op("check_auth", session.user_id, 0,
                    IF ~HasUserId(session) \/ ~ValidateSession(session)
                    THEN "401" ELSE "200")
    /\ UNCHANGED <<trips, units, settings, cache, now, hist, session, procs>>

(* A completion request run by actor w next to other requests.  procs.req[w]
   holds the request's position and its local live_rate; procs.seen[r] is the
   document the reader r got from db.get_trip; procs.written is a ghost: the
   update_fields every completion has passed to db.update_trip so far. *)

(* the three fields a completion writes, as found in a trip document *)
CompletionFields(t) == <<t.status, t.completed_at, t.exchange_rate_at>>

(* mark_complete line 625, driver_mark_complete lines 642-648: the driver's
   ownership test, then live_rate = ExchangeRateService.get_live_rate() *)
CompleteGetRate(w, id, fetched) ==
    /\ procs.req[w].pc = "start"
    /\ IF RoleOf(w) = "driver" /\ ~DriverOwnsTrip(w, id)
       THEN /\ procs' = [procs EXCEPT !.req[w].pc = "done"]
            /\ lastOp' = Op("driver_mark_complete", w, id, "not_found_or_not_assigned")
            /\ UNCHANGED cache
       ELSE LET live == GetLiveRate(cache, now, fetched) IN
            /\ cache' = live.cache
            /\ procs' = [procs EXCEPT !.req[w] = [pc |-> "update", live_rate |-> live.rate]]
            /\ lastOp' = Op("get_live_rate", w, id, "ok")
    /\ UNCHANGED <<trips, units, settings, now, hist, session>>

(* mark_complete lines 627-635, driver_mark_complete lines 650-658:
   update_fields and the one call of db.update_trip *)
CompleteUpdate(w, id) ==
    /\ procs.req[w].pc = "update"
    /\ trips' = UpdateTrip(id, "completed", Time(now), procs.req[w].live_rate)
    /\ hist' = Remember(id, Time(now))
    /\ procs' = [procs EXCEPT !.req[w].pc = "done",
                              !.written = @ \cup {<<"completed", Time(now),
                                                    procs.req[w].live_rate>>}]
    /\ lastOp' = Op(IF RoleOf(w) = "owner" THEN "mark_complete"
                    ELSE "driver_mark_complete", w, id, "ok")
    /\ UNCHANGED <<units, settings, cache, now, session>>

(* trip_detail: trip = db.get_trip(trip_id), one find_one *)
ReadTrip(r, id) ==
    /\ procs' = [procs EXCEPT !.seen[r] = GetTrip(id)]
    /\ lastOp' = Op("trip_detail", r, id, IF TripExists(id) THEN "ok" ELSE "not_found")
    /\ UNCHANGED <<trips, units, settings, cache, now, hist, session>>

(* time passes; the outcome of the last request is no longer on screen *)
Tick(d) ==
    /\ now + d <= MaxTime
    /\ now' = now + d
    /\ lastOp' = NoOp
    /\ UNCHANGED <<trips, units, settings, cache, hist, session, procs>>

-----------------------------------------------------------------------------

(* State after the construction of the one DBHandler of app.py, before any
   request. *)
Init ==
    /\ trips = <<>>
    /\ units = <<>>
    /\ settings = <<DefaultSettings>>
    /\ cache = [rate |-> NoneV, timestamp |-> NoneV]
    /\ now = 0
    /\ lastOp = NoOp
    /\ hist = <<>>
    /\ session = NoSession
    /\ procs = <<>>

Next ==
    \/ \E p \in PaymentInputs, d \in FormDrivers, s \in FormStatuses :
          NewTrip("owner", p, d, s)
    \/ \E f \in FetchResults : NewTripForm("owner", f)
    \/ \E a \in Actors, id \in TripIds, e \in ExpenseInputs : AddExpense(a, id, e)
    \/ \E a \in Actors, id \in TripIds, f \in FetchResults : MarkComplete(a, id, f)
    \/ \E a \in Actors, id \in TripIds, f \in FetchResults : DriverMarkComplete(a, id, f)
    \/ NewUnit("owner")
    \/ \E id \in UnitIds, e \in ExpenseInputs : AddUnitExpense("owner", id, e)
    \/ \E d \in TickSteps : Tick(d)

Spec == Init /\ [][Next]_vars

(* Who may do what to a trip, and when: every actor, every status, the clock;
   one expense, and a provider that answers 1.40 or not at all. *)
NextGate ==
    \/ \E s \in FormStatuses :
          NewTrip("owner", [amount |-> Rat(1000, 1), currency |-> "USD"], "d1", s)
    \/ \E a \in Actors, id \in TripIds :
          AddExpense(a, id, [amount |-> Rat(50, 1), currency |-> "USD"])
    \/ \E a \in Actors, id \in TripIds, f \in {NoneV, Rat(140, 100)} :
          MarkComplete(a, id, f)
    \/ \E a \in Actors, id \in TripIds, f \in {NoneV, Rat(140, 100)} :
          DriverMarkComplete(a, id, f)
    \/ \E d \in TickSteps : Tick(d)

SpecGate == Init /\ [][NextGate]_vars

(* What the reports show: the owner creates, fills and completes trips while
   the settings change, at one instant; the provider answers 1.40. *)
NextReport ==
    \/ \E s \in {"active", "completed"} :
          NewTrip("owner", [amount |-> Rat(1000, 1), currency |-> "USD"], "d1", s)
    \/ \E id \in TripIds, e \in ExpenseInputs : AddExpense("owner", id, e)
    \/ \E id \in TripIds : MarkComplete("owner", id, Rat(140, 100))
    \/ \E c \in {"USD", "CAD", "EUR"} : SetPrimaryCurrency("owner", c)
    \/ \E r \in {Rat(135, 100), Rat(150, 100)} : SetExchangeRate(r)

SpecReport == Init /\ [][NextReport]_vars

(* What the dashboard totals: the reports' requests and the units with their
   expenses. *)
NextTotals ==
    \/ \E s \in {"active", "completed"} :
          NewTrip("owner", [amount |-> Rat(1000, 1), currency |-> "USD"], "d1", s)
    \/ \E id \in TripIds, e \in ExpenseInputs : AddExpense("owner", id, e)
    \/ \E id \in TripIds : MarkComplete("owner", id, Rat(140, 100))
    \/ \E c \in {"USD", "CAD"} : SetPrimaryCurrency("owner", c)
    \/ \E r \in {Rat(135, 100), Rat(150, 100)} : SetExchangeRate(r)
    \/ NewUnit("owner")
    \/ \E id \in UnitIds, e \in ExpenseInputs : AddUnitExpense("owner", id, e)

SpecTotals == Init /\ [][NextTotals]_vars

(* the processes that each construct a DBHandler on the same store *)
Handlers == {"h1", "h2"}

(* Startup: the store is empty or holds the settings of an earlier run, and
   no handler has run its constructor yet. *)
InitBoot ==
    /\ trips = <<>>
    /\ units = <<>>
    /\ settings \in {<<>>, <<DefaultSettings>>}
    /\ cache = [rate |-> NoneV, timestamp |-> NoneV]
    /\ now = 0
    /\ lastOp = NoOp
    /\ hist = <<>>
    /\ session = NoSession
    /\ procs = [h \in Handlers |-> [pc |-> "count", count |-> 0]]

(* a process serves requests once its own handler is constructed *)
Serving == \E h \in Handlers : procs[h].pc = "ready"

(* Two processes start on one store, each constructing its DBHandler in two
   steps, and serve the owner's requests as soon as they are ready. *)
NextBoot ==
    \/ \E h \in Handlers : BootCount(h)
    \/ \E h \in Handlers : BootInsert(h)
    \/ \E c \in {"USD", "CAD"} : Serving /\ SetPrimaryCurrency("owner", c)
    \/ \E r \in {Rat(135, 100), Rat(150, 100)} : Serving /\ SetExchangeRate(r)
    \/ Serving /\ NewTrip("owner", [amount |-> Rat(1000, 1), currency |-> "USD"],
                           "d1", "active")
    \/ \E id \in TripIds, e \in ExpenseInputs : Serving /\ AddExpense("owner", id, e)

SpecBoot == InitBoot /\ [][NextBoot]_vars

(* the sessions a client may present: keys missing, a role the application
   does not know, an id that is no ObjectId, an owner role on a driver's id *)
SessionInputs ==
    [user_id : {"", "owner", "d1", "bogus"},
     user_role : {"", "owner", "driver", "admin"},
     user_name : {"", "Owner"}]

(* the endpoints of the routes below, none of them public *)
ProtectedEndpoints ==
    {"clear_session", "check_auth", "new_trip", "add_expense", "mark_complete",
     "driver_mark_complete", "set_primary_currency"}

(* One client and its session: it logs in and out, presents cookies of its
   own making, and sends requests, each through before_request and the
   route's decorator. *)
NextSession ==
    \/ \E a \in Actors, ok \in BOOLEAN : Login(a, ok)
    \/ LoginPage
    \/ Logout
    \/ \E sess \in SessionInputs : PresentCookie(sess)
    \/ \E e \in ProtectedEndpoints : LoginRedirect(e)
    \/ Admitted("clear_session") /\ ClearSession
    \/ Admitted("check_auth") /\ CheckAuth
    \/ AdmittedLogin("new_trip") /\
          NewTrip(session.user_id, [amount |-> Rat(1000, 1), currency |-> "USD"], "d1", "active")
    \/ \E id \in TripIds :
          AdmittedLogin("add_expense") /\
          AddExpense(session.user_id, id, [amount |-> Rat(50, 1), currency |-> "USD"])
    \/ \E id \in TripIds :
          AdmittedLogin("mark_complete") /\ MarkComplete(session.user_id, id, Rat(140, 100))
    \/ \E id \in TripIds :
          AdmittedLogin("driver_mark_complete") /\
          DriverMarkComplete(session.user_id, id, Rat(140, 100))
    \/ \E c \in {"USD", "CAD"} :
          AdmittedLogin("set_primary_currency") /\ SetPrimaryCurrency(session.user_id, c)

SpecSession == Init /\ [][NextSession]_vars

(* the clock of the rate cache moves by half an hour or an hour *)
CacheTickSteps == {30, 60}

(* the actors whose completion requests run concurrently, and the readers *)
Completers == {"owner", "d1"}

Readers == {"r1"}

(* one active trip assigned to d1, and no request started *)
InitCompleteRace ==
    /\ trips = <<[driver_id |-> "d1",
                  payment_usd |-> Rat(1000, 1),
                  status |-> "active",
                  expenses |-> <<>>,
                  completed_at |-> NoneV,
                  exchange_rate_at |-> NoneV]>>
    /\ units = <<>>
    /\ settings = <<DefaultSettings>>
    /\ cache = [rate |-> NoneV, timestamp |-> NoneV]
    /\ now = 0
    /\ lastOp = NoOp
    /\ hist = <<NoneV>>
    /\ session = NoSession
    /\ procs = [req |-> [w \in Completers |-> [pc |-> "start", live_rate |-> NoneV]],
                seen |-> [r \in Readers |-> NoneV],
                written |-> {}]

(* The owner and the assigned driver complete trip 1 while a reader loads it
   and the owner adds expenses; every database call is one step. *)
NextCompleteRace ==
    \/ \E w \in Completers, f \in FetchResults : CompleteGetRate(w, 1, f)
    \/ \E w \in Completers : CompleteUpdate(w, 1)
    \/ \E r \in Readers : ReadTrip(r, 1)
    \/ \E e \in ExpenseInputs : AddExpense("owner", 1, e)
    \/ \E d \in CacheTickSteps : now + d <= MaxCacheAge /\ Tick(d)

SpecCompleteRace == InitCompleteRace /\ [][NextCompleteRace]_vars

(* the request threads of one process, which share ExchangeRateService._cache *)
Threads == {"t1", "t2"}

InitRateRace ==
    /\ trips = <<>>
    /\ units = <<>>
    /\ settings = <<DefaultSettings>>
    /\ cache = [rate |-> NoneV, timestamp |-> NoneV]
    /\ now = 0
    /\ lastOp = NoOp
    /\ hist = <<>>
    /\ session = NoSession
    /\ procs = [th |-> [t \in Threads |-> [pc |-> "idle", rate |-> NoneV]],
                stored_at |-> NoneV]

(* no thread is inside get_live_rate *)
NoCallInProgress == \A t \in Threads : procs.th[t].pc = "idle"

(* no thread is between the two assignments of lines 96 and 97 *)
NotStoring == \A t \in Threads : procs.th[t].pc \notin {"store_rate", "store_timestamp"}

(* Two threads call get_live_rate and reset_cache, interleaved statement by
   statement; the clock moves while threads are idle or fetching, and not
   between the two assignments to the cache. *)
NextRateRace ==
    \/ \E t \in Threads : GlrEnter(t)
    \/ \E t \in Threads, f \in FetchResults : GlrFetch(t, f)
    \/ \E t \in Threads : GlrStoreRate(t)
    \/ \E t \in Threads : GlrStoreTimestamp(t)
    \/ \E t \in Threads : GlrUseCached(t)
    \/ \E t \in Threads : ResetCacheBy(t)
    \/ \E d \in CacheTickSteps : NotStoring /\ now + d <= MaxCacheAge /\ Tick(d)

SpecRateRace == InitRateRace /\ [][NextRateRace]_vars

(* The rate provider on its own: calls of get_live_rate under every provider
   setting and every answer of the source, reset_cache, and the clock. *)
NextRate ==
    \/ \E p \in Providers, k \in ApiKeys, a \in Payloads : GetLiveRateCall(p, k, a)
    \/ ResetCache
    \/ \E d \in CacheTickSteps : now + d <= MaxCacheAge /\ Tick(d)

SpecRate == Init /\ [][NextRate]_vars

(* The conversion engine on its own, applied to every combination of inputs. *)
NextConvert ==
    \/ \E x \in AmountInputs, c \in CurrencyInputs, r \in RateInputs, p \in CurrencyInputs :
          ConvertCall(x, c, r, p)
    \/ \E x \in AmountInputs, r \in RateInputs : RoundTripCall(x, r)

SpecConvert == Init /\ [][NextConvert]_vars

-----------------------------------------------------------------------------
(* Properties of the trip lifecycle *)

TripIndex == 1..Len(trips)

(* C1: in every reachable state a trip has exchange_rate_at present if and
   only if its status is completed. *)
C1_RateIffCompleted ==
    \A i \in TripIndex :
        (trips[i].exchange_rate_at # NoneV) <=> (trips[i].status = "completed")

(* C2: a trip's exchange_rate_at is written once: no step changes an
   exchange_rate_at that a completion has written. *)
C2_RateWrittenOnce ==
    [][\A i \in TripIndex :
          trips[i].exchange_rate_at # NoneV
              => trips'[i].exchange_rate_at = trips[i].exchange_rate_at]_vars

(* C3: no step changes the status, completed_at or exchange_rate_at of a trip
   that a completion has already completed (so a second completion request is
   rejected or is a no-op). *)
C3_CompletedIsFinal ==
    [][\A i \in TripIndex :
          (trips[i].status = "completed" /\ trips[i].completed_at # NoneV)
              => /\ trips'[i].status = trips[i].status
                 /\ trips'[i].completed_at = trips[i].completed_at
                 /\ trips'[i].exchange_rate_at = trips[i].exchange_rate_at]_vars

(* C5: once a trip is completed with a locked rate L, every report of the
   trip made after any further step selects L, and values the trip's expenses
   with L, whatever the current rate is. *)
C5_ReportsKeepLockedRate ==
    [][\A i \in TripIndex : \A cur \in CurrentRates :
          LET L == trips[i].exchange_rate_at
              t == trips'[i]
              primary == GetPrimaryCurrency'
          IN  (trips[i].status = "completed" /\ L # NoneV) =>
                /\ DashboardTotalsRate(t, cur) = L
                /\ RecentTripsRate(t, cur) = L
                /\ AllTripsRate(t, cur) = L
                /\ TripDetailRate(t, cur) = L
                /\ DriverProfileRate(t, cur) = L
                /\ UnitDetailRate(t, cur) = L
                /\ AllTripsRow(t, cur, primary).expenses_primary
                       = SumExpenses(t.expenses, L, primary)
                /\ TripDetailPage(t, cur, primary).expenses_primary
                       = SumExpenses(t.expenses, L, primary)]_vars

(* C8: the assigned driver never appends an expense to a trip more than 24
   hours after the completed_at first written to that trip. *)
C8_NoDriverExpenseAfterFirstWindow ==
    (/\ lastOp.op = "add_expense"
     /\ lastOp.outcome = "ok"
     /\ RoleOf(lastOp.actor) = "driver"
     /\ hist[lastOp.trip] # NoneV)
        => now - hist[lastOp.trip].t <= GRACE_WINDOW

(* C9: the rate the aggregation uses for a trip that is not completed is a
   rate the Rate Provider would return now, for some answer of the provider. *)
C9_CurrentRateIsLiveRate ==
    \A i \in TripIndex :
        trips[i].status # "completed" =>
            \E f \in FetchResults :
                /\ DashboardTotalsRate(trips[i], GetExchangeRate)
                       = GetLiveRate(cache, now, f).rate
                /\ AllTripsRate(trips[i], GetExchangeRate)
                       = GetLiveRate(cache, now, f).rate

Completions == {"mark_complete", "driver_mark_complete"}

(* C4 as stated: a completion request of an actor who is not the owner is
   rejected and leaves the trips as they were. *)
C4_NonOwnerCompletionRejected ==
    [][(lastOp'.op \in Completions /\ lastOp'.actor # "owner")
          => (lastOp'.outcome # "ok" /\ trips' = trips)]_vars

(* C4 as amended: a completion request of an actor who is neither the owner
   nor the driver assigned to the trip is rejected and leaves the trips as
   they were. *)
C4_UnauthorisedCompletionRejected ==
    [][\A id \in TripIds :
          (/\ lastOp'.op \in Completions
           /\ lastOp'.trip = id
           /\ lastOp'.actor # "owner"
           /\ ~(id \in 1..Len(trips) /\ trips[id].driver_id = lastOp'.actor))
          => (/\ lastOp'.outcome \in {"denied", "not_found_or_not_assigned"}
              /\ trips' = trips)]_vars

(* a driver asked to complete a trip assigned to another driver and was refused *)
C4_Witness ==
    /\ lastOp.op = "driver_mark_complete"
    /\ lastOp.actor = "d2"
    /\ lastOp.trip \in TripIndex
    /\ trips[lastOp.trip].driver_id = "d1"
    /\ lastOp.outcome = "not_found_or_not_assigned"

(* C6: for an actor who is not the owner, add-expense on a trip succeeds if
   and only if the actor is the trip's assigned driver and the trip is active,
   or completed no more than 24 hours ago; trip_detail offers it in the same
   cases. *)
C6_DriverGate ==
    \A i \in TripIndex : \A a \in Drivers :
        LET t == trips[i]
            permitted ==
                /\ t.driver_id = a
                /\ \/ t.status = "active"
                   \/ /\ t.status = "completed"
                      /\ t.completed_at # NoneV
                      /\ now - t.completed_at.t <= GRACE_WINDOW
        IN  /\ CanAddExpense(a, t, now) <=> permitted
            /\ (lastOp.op = "add_expense" /\ lastOp.actor = a /\ lastOp.trip = i)
                  => (lastOp.outcome = "ok" <=> permitted)

(* C7: an add-expense request of the owner on an existing trip succeeds and
   appends the expense, whatever the trip's status, driver and age; and
   trip_detail offers it. *)
C7_OwnerAlwaysAllowed ==
    [][\A id \in TripIds :
          (/\ lastOp'.op = "add_expense"
           /\ lastOp'.actor = "owner"
           /\ lastOp'.trip = id
           /\ id \in 1..Len(trips))
          => (/\ lastOp'.outcome = "ok"
              /\ CanAddExpense("owner", trips[id], now)
              /\ Len(trips'[id].expenses) = Len(trips[id].expenses) + 1)]_vars

(* the owner added an expense to another driver's trip, completed more than
   24 hours before *)
C7_Witness ==
    /\ lastOp.op = "add_expense"
    /\ lastOp.actor = "owner"
    /\ lastOp.outcome = "ok"
    /\ lastOp.trip \in TripIndex
    /\ trips[lastOp.trip].status = "completed"
    /\ trips[lastOp.trip].completed_at # NoneV
    /\ now - trips[lastOp.trip].completed_at.t > GRACE_WINDOW
    /\ trips[lastOp.trip].expenses # <<>>

-----------------------------------------------------------------------------
(* Properties of the aggregation *)

(* the sum of the converted expenses, taken from the last expense backwards *)
RECURSIVE ConvertedTotal(_, _, _, _)
ConvertedTotal(expenses, n, rate, primary) ==
    IF n = 0 THEN Zero
    ELSE RAdd(ConvertedTotal(expenses, n - 1, rate, primary),
              ConvertToPrimary(expenses[n].amount, expenses[n].currency, rate, primary))

ProfitAt(t, rate, primary) ==
    RSub(ConvertToPrimary(t.payment_usd, "USD", rate, primary),
         ConvertedTotal(t.expenses, Len(t.expenses), rate, primary))

ExampleTrip(t) ==
    /\ t.status = "active"
    /\ t.payment_usd = Rat(1000, 1)
    /\ t.expenses = <<[amount |-> Rat(135, 1), currency |-> "CAD"]>>

(* C10: the profit all_trips and trip_detail report for a trip is
   convert(payment_usd) minus the sum of convert(expense), every term with the
   one rate the view selected for the trip; at rate 1.35 and primary USD a
   payment of 1000 USD and one expense of 135 CAD give expenses 100 and
   profit 900. *)
C10_ProfitOneRate ==
    \A i \in TripIndex :
        LET t == trips[i]
            cur == GetExchangeRate
            primary == GetPrimaryCurrency
            row == AllTripsRow(t, cur, primary)
            page == TripDetailPage(t, cur, primary)
        IN  /\ row.profit_primary = ProfitAt(t, AllTripsRate(t, cur), primary)
            /\ page.profit_primary = ProfitAt(t, TripDetailRate(t, cur), primary)
            /\ (ExampleTrip(t) /\ cur = Rat(135, 100) /\ primary = "USD")
                  => /\ row.expenses_primary = Rat(100, 1)
                     /\ row.profit_primary = Rat(900, 1)
                     /\ page.expenses_primary = Rat(100, 1)
                     /\ page.profit_primary = Rat(900, 1)

(* the example of the claim: an active trip paid 1000 USD with one expense of
   135 CAD, reported at the current rate 1.35 in primary currency USD *)
C10_Witness ==
    \E i \in TripIndex :
        /\ ExampleTrip(trips[i])
        /\ GetExchangeRate = Rat(135, 100)
        /\ GetPrimaryCurrency = "USD"

-----------------------------------------------------------------------------
(* Properties of the rate provider.  A state whose lastOp is a get_live_rate
   call is the state that call left: lastOp.before and lastOp.at are the cache
   and the clock the call found, cache is the cache it left. *)

RateCalled == lastOp.op = "get_live_rate"

EmptyCache == [rate |-> NoneV, timestamp |-> NoneV]

(* the cache the call found held a value captured less than one hour before *)
FoundYoungCache ==
    /\ lastOp.before.rate # NoneV
    /\ lastOp.before.timestamp # NoneV
    /\ lastOp.at - lastOp.before.timestamp.t < 60

(* C12: a get_live_rate call that finds a cached value captured strictly less
   than one hour ago returns that value without calling the fetch path and
   without a request; a call that finds the cache empty or one hour old or
   older calls the fetch path. *)
C12_FreshCacheNoFetch ==
    RateCalled =>
        /\ FoundYoungCache =>
               /\ lastOp.rate = lastOp.before.rate
               /\ lastOp.fetch_calls = 0
               /\ lastOp.requests = <<>>
        /\ ~FoundYoungCache => lastOp.fetch_calls = 1

(* a call 30 minutes after the cache was filled, answered from the cache *)
C12_Witness ==
    /\ RateCalled
    /\ lastOp.before.timestamp # NoneV
    /\ lastOp.at - lastOp.before.timestamp.t = 30
    /\ lastOp.fetch_calls = 0
    /\ lastOp.rate = lastOp.before.rate

(* C13: a get_live_rate call that misses the cache calls the fetch path exactly
   once, which sends at most one request and only to the configured source;
   when the fetch yields a rate, the cache holds that rate with the timestamp
   of the call and the call returns that rate. *)
C13_OneFetchThenOverwrite ==
    (RateCalled /\ ~FoundYoungCache) =>
        /\ lastOp.fetch_calls = 1
        /\ Len(lastOp.requests) <= 1
        /\ \A i \in 1..Len(lastOp.requests) : lastOp.requests[i] = lastOp.provider
        /\ lastOp.fetched # NoneV =>
               /\ cache = [rate |-> lastOp.fetched, timestamp |-> Time(lastOp.at)]
               /\ lastOp.rate = lastOp.fetched

(* an expired cache replaced by a different rate fetched 90 minutes later *)
C13_Witness ==
    /\ RateCalled
    /\ lastOp.before.rate # NoneV
    /\ lastOp.before.timestamp # NoneV
    /\ lastOp.at - lastOp.before.timestamp.t = 90
    /\ lastOp.fetched # NoneV
    /\ lastOp.fetched # lastOp.before.rate
    /\ lastOp.requests # <<>>
    /\ cache.timestamp = Time(lastOp.at)

(* C14: when the fetch of a get_live_rate call fails, the call returns the
   cached value if there is one, however old, and leaves the cache as it found
   it; with no cached value it returns the fallback constant. *)
C14_FailedFetchUsesCacheOrFallback ==
    (RateCalled /\ lastOp.fetch_calls = 1 /\ lastOp.fetched = NoneV) =>
        /\ cache = lastOp.before
        /\ lastOp.before.rate # NoneV => lastOp.rate = lastOp.before.rate
        /\ lastOp.before.rate = NoneV => lastOp.rate = FALLBACK_RATE

(* a request that failed two hours after the cache was filled *)
C14_Witness ==
    /\ RateCalled
    /\ lastOp.fetch_calls = 1
    /\ lastOp.fetched = NoneV
    /\ lastOp.requests # <<>>
    /\ lastOp.before.rate # NoneV
    /\ lastOp.before.timestamp # NoneV
    /\ lastOp.at - lastOp.before.timestamp.t = 120
    /\ lastOp.rate = lastOp.before.rate

(* C15: after any sequence of get_live_rate and reset_cache calls, a
   get_live_rate call returns a positive number under every provider setting,
   key and answer of the source, and the call just made returned one. *)
C15_AlwaysPositiveRate ==
    /\ RateCalled => Positive(lastOp.rate)
    /\ \A p \in Providers, k \in ApiKeys, a \in Payloads :
           Positive(GetLiveRate(cache, now, FetchFromApi(p, k, a).value).rate)

(* an unknown provider name and an empty cache, after a reset *)
C15_Witness ==
    /\ RateCalled
    /\ lastOp.provider = "ecb"
    /\ lastOp.before = EmptyCache
    /\ lastOp.at > 0
    /\ lastOp.fetched = NoneV
    /\ Positive(lastOp.rate)

(* C16: after reset_cache the cache holds neither a rate nor a timestamp,
   whatever it held before, and a get_live_rate call made on the cleared cache
   calls the fetch path. *)
C16_ResetClearsBoth ==
    /\ lastOp.op = "reset_cache" =>
           /\ cache = EmptyCache
           /\ \A p \in Providers, k \in ApiKeys, a \in Payloads :
                  GetLiveRate(cache, now, FetchFromApi(p, k, a).value).fetch_calls = 1
    /\ (RateCalled /\ lastOp.before = EmptyCache) => lastOp.fetch_calls = 1

(* a reset of a cache that was still fresh *)
C16_Witness ==
    /\ lastOp.op = "reset_cache"
    /\ lastOp.before.rate # NoneV
    /\ lastOp.before.timestamp # NoneV
    /\ now - lastOp.before.timestamp.t < 60
    /\ cache = EmptyCache

-----------------------------------------------------------------------------
(* Properties of the conversion engine.  A state whose lastOp is a
   convert_to_primary call holds the arguments and the value returned. *)

Converted == lastOp.op = "convert_to_primary"

(* the rate is a number other than zero *)
UsableRate == IsNum(lastOp.exchange_rate) /\ lastOp.exchange_rate.n # 0

(* C17: with the same currency as source and target, convert_to_primary
   returns the amount, for every currency, every numeric amount and every
   rate, a zero, missing or non-numeric rate included. *)
C17_SameCurrencyIdentity ==
    (/\ Converted
     /\ lastOp.from_currency = lastOp.primary_currency
     /\ IsNum(lastOp.amount))
        => lastOp.result = lastOp.amount

(* CAD to CAD with no rate at all *)
C17_Witness ==
    /\ Converted
    /\ lastOp.from_currency = "CAD"
    /\ lastOp.primary_currency = "CAD"
    /\ lastOp.exchange_rate = NoneV
    /\ lastOp.amount = Rat(135, 1)
    /\ lastOp.result = Rat(135, 1)

(* C18: with a numeric non-zero rate r and a numeric amount,
   convert_to_primary returns amount / r from CAD to USD and amount * r from
   USD to CAD. *)
C18_DivideOrMultiply ==
    (Converted /\ UsableRate /\ IsNum(lastOp.amount)) =>
        /\ (lastOp.from_currency = "CAD" /\ lastOp.primary_currency = "USD")
               => lastOp.result = RDiv(lastOp.amount, lastOp.exchange_rate)
        /\ (lastOp.from_currency = "USD" /\ lastOp.primary_currency = "CAD")
               => lastOp.result = RMul(lastOp.amount, lastOp.exchange_rate)

(* 135 CAD at 1.35 are 100 USD *)
C18_Witness ==
    /\ Converted
    /\ lastOp.from_currency = "CAD"
    /\ lastOp.primary_currency = "USD"
    /\ lastOp.amount = Rat(135, 1)
    /\ lastOp.exchange_rate = Rat(135, 100)
    /\ lastOp.result = Rat(100, 1)

(* the call is between CAD and USD, in one direction or the other *)
NeedsConversion ==
    \/ Upper(OrUSD(lastOp.from_currency)) = "CAD"
           /\ Upper(OrUSD(lastOp.primary_currency)) = "USD"
    \/ Upper(OrUSD(lastOp.from_currency)) = "USD"
           /\ Upper(OrUSD(lastOp.primary_currency)) = "CAD"

(* C19: convert_to_primary returns a number for every input and never raises;
   between CAD and USD a zero, missing or non-numeric rate gives 0.0, and a
   missing or non-numeric amount counts as 0.0. *)
C19_Total ==
    Converted =>
        /\ lastOp.result # Raised
        /\ IsNum(lastOp.result)
        /\ (NeedsConversion /\ ~UsableRate) => lastOp.result = Zero
        /\ ~IsNum(lastOp.amount) => lastOp.result = Zero

(* CAD to USD at rate zero *)
C19_Witness ==
    /\ Converted
    /\ lastOp.from_currency = "CAD"
    /\ lastOp.primary_currency = "USD"
    /\ lastOp.exchange_rate = Zero
    /\ lastOp.amount = Rat(135, 1)
    /\ lastOp.result = Zero

(* C20: for a pair of different currencies that is neither CAD to USD nor USD
   to CAD, convert_to_primary returns the amount as it is. *)
C20_UnsupportedPairPassThrough ==
    (/\ Converted
     /\ Upper(OrUSD(lastOp.from_currency)) # Upper(OrUSD(lastOp.primary_currency))
     /\ ~NeedsConversion
     /\ IsNum(lastOp.amount))
        => lastOp.result = lastOp.amount

-----------------------------------------------------------------------------
(* Properties of the system-wide totals *)

(* the rate of the trip itself: locked if completed, current otherwise *)
OwnRate(t) == IF t.status = "completed" THEN t.exchange_rate_at ELSE GetExchangeRate

RECURSIVE TripRevenueSum(_)
TripRevenueSum(n) ==
    IF n = 0 THEN Zero
    ELSE RAdd(TripRevenueSum(n - 1),
              ConvertToPrimary(trips[n].payment_usd, "USD", OwnRate(trips[n]),
                               GetPrimaryCurrency))

RECURSIVE TripExpenseSum(_)
TripExpenseSum(n) ==
    IF n = 0 THEN Zero
    ELSE RAdd(TripExpenseSum(n - 1),
              ConvertedTotal(trips[n].expenses, Len(trips[n].expenses),
                             OwnRate(trips[n]), GetPrimaryCurrency))

RECURSIVE UnitExpenseSum(_)
UnitExpenseSum(n) ==
    IF n = 0 THEN Zero
    ELSE RAdd(UnitExpenseSum(n - 1),
              ConvertedTotal(units[n].expenses, Len(units[n].expenses),
                             GetExchangeRate, GetPrimaryCurrency))

(* C11: the totals of the owner dashboard are: revenue, the sum over the trips
   of the payment converted with the trip's own rate (locked if completed,
   current otherwise); expenses, the sum of all trip expenses converted with
   the trip's own rate plus all unit expenses; net, revenue minus expenses. *)
C11_DashboardTotals ==
    LET stats == OwnerDashboardStats(trips, units, GetExchangeRate, GetPrimaryCurrency)
    IN  /\ stats.total_revenue_primary = TripRevenueSum(Len(trips))
        /\ stats.total_expenses_primary
               = RAdd(TripExpenseSum(Len(trips)), UnitExpenseSum(Len(units)))
        /\ stats.net_primary
               = RSub(stats.total_revenue_primary, stats.total_expenses_primary)

(* C21: for every numeric amount x and every numeric rate r other than zero,
   converting x from USD to CAD and the result back from CAD to USD, both at
   r, gives x again. *)
C21_RoundTrip ==
    (/\ lastOp.op = "round_trip"
     /\ IsNum(lastOp.amount)
     /\ IsNum(lastOp.exchange_rate)
     /\ lastOp.exchange_rate.n # 0)
        => lastOp.back = lastOp.amount

(* 135 USD are 182.25 CAD at 1.35, and 135 USD again *)
C21_Witness ==
    /\ lastOp.op = "round_trip"
    /\ lastOp.amount = Rat(135, 1)
    /\ lastOp.exchange_rate = Rat(135, 100)
    /\ lastOp.there = Rat(18225, 100)
    /\ lastOp.back = Rat(135, 1)

-----------------------------------------------------------------------------
(* Properties of the handlers' outcomes and effects *)

(* C23: a completion (owner or driver route), a trip expense or a unit expense
   addressed to an id that no document has, by a caller the role check lets
   through, ends in the outcome not_found, which is neither a success nor a
   denial. *)
C23_MissingEntityNotFound ==
    /\ (/\ lastOp.op \in {"mark_complete", "driver_mark_complete", "add_expense"}
        /\ lastOp.outcome # "denied"
        /\ ~TripExists(lastOp.trip))
           => lastOp.outcome = "not_found"
    /\ (/\ lastOp.op = "add_unit_expense"
        /\ lastOp.outcome # "denied"
        /\ lastOp.trip \notin 1..Len(units))
           => lastOp.outcome = "not_found"

(* the expenses before are the expenses after, or all but the last of them *)
AppendedOrSame(before, after) ==
    \/ after = before
    \/ /\ Len(after) = Len(before) + 1
       /\ SubSeq(after, 1, Len(before)) = before

(* C25: every step keeps every trip and every unit, keeps each trip's payment
   and driver reference, and leaves each expense list as it was or with one
   expense more at its end. *)
C25_AppendOnly ==
    [][/\ Len(trips') >= Len(trips)
       /\ Len(units') >= Len(units)
       /\ \A i \in 1..Len(trips) :
              /\ trips'[i].payment_usd = trips[i].payment_usd
              /\ trips'[i].driver_id = trips[i].driver_id
              /\ AppendedOrSame(trips[i].expenses, trips'[i].expenses)
       /\ \A i \in 1..Len(units) :
              AppendedOrSame(units[i].expenses, units'[i].expenses)]_vars

(* a trip with two different expenses, completed after they were added *)
C25_Witness ==
    /\ lastOp.op = "mark_complete"
    /\ lastOp.outcome = "ok"
    /\ TripExists(lastOp.trip)
    /\ Len(trips[lastOp.trip].expenses) = 2
    /\ trips[lastOp.trip].expenses[1] # trips[lastOp.trip].expenses[2]
    /\ \E i \in 1..Len(units) : Len(units[i].expenses) = 1

(* C26: in every reachable state a trip's status is active or completed, and a
   completed trip has been through a completion, which stamped completed_at. *)
C26_StatusDomain ==
    \A i \in TripIndex :
        /\ trips[i].status \in {"active", "completed"}
        /\ trips[i].status = "completed" => trips[i].completed_at # NoneV

(* C29: for every stored trip and the current settings, the dashboard totals,
   the recent-trips rows, the all-trips list, the driver profile and the trip
   detail page select the same rate and show the same revenue, expenses and
   profit. *)
C29_ViewsAgree ==
    \A i \in TripIndex :
        LET t == trips[i]
            cur == GetExchangeRate
            primary == GetPrimaryCurrency
            rate == AllTripsRate(t, cur)
            row == AllTripsRow(t, cur, primary)
            page == TripDetailPage(t, cur, primary)
            prof == DriverProfileRow(t, cur, primary)
            stats == OwnerDashboardStats(<<t>>, <<>>, cur, primary)
        IN  /\ DashboardTotalsRate(t, cur) = rate
            /\ RecentTripsRate(t, cur) = rate
            /\ DriverProfileRate(t, cur) = rate
            /\ TripDetailRate(t, cur) = rate
            /\ page.payment_primary = row.payment_primary
            /\ page.expenses_primary = row.expenses_primary
            /\ page.profit_primary = row.profit_primary
            /\ prof = row
            /\ RecentTripsProfit(t, cur, primary) = row.profit_primary
            /\ stats.total_revenue_primary = row.payment_primary
            /\ stats.total_expenses_primary = row.expenses_primary
            /\ stats.net_primary = row.profit_primary

-----------------------------------------------------------------------------
(* Properties of the settings collection *)

(* C22: once a handler is constructed the settings collection holds exactly
   one document, whether the store was empty or not and also when two handlers
   are constructed at the same time, and no request adds or removes one. *)
C22_OneSettingsDocument ==
    Serving => Len(settings) = 1

-----------------------------------------------------------------------------
(* Properties of the rate cache under concurrent calls *)

(* C30: whenever no get_live_rate or reset_cache call is in progress, the
   cached rate and its timestamp are both set or both empty, and a set
   timestamp is the time at which the rate in the cache was stored. *)
C30_CacheConsistentAtRest ==
    NoCallInProgress =>
        /\ (cache.rate = NoneV) = (cache.timestamp = NoneV)
        /\ cache.timestamp # NoneV => cache.timestamp = procs.stored_at

-----------------------------------------------------------------------------
(* Trip completion next to concurrent requests *)

(* C24: a completion writes status, completed_at and exchange_rate_at in one
   update: whatever document a concurrent reader gets, its three fields are
   those of the new trip or exactly the three values one completion passed to
   update_trip, never a mixture. *)
C24_CompletionAtomic ==
    \A r \in Readers :
        procs.seen[r] # NoneV =>
            \/ CompletionFields(procs.seen[r]) = <<"active", NoneV, NoneV>>
            \/ CompletionFields(procs.seen[r]) \in procs.written

(* a reader holds the completed trip while another completion is between its
   rate fetch and its update *)
C24_Witness ==
    \E r \in Readers, w \in Completers :
        /\ procs.seen[r] # NoneV
        /\ procs.seen[r].status = "completed"
        /\ procs.req[w].pc = "update"

-----------------------------------------------------------------------------
(* The request pipeline *)

(* the last step was a request to a route that is not public *)
ProtectedRequest == lastOp'.op \in ProtectedEndpoints

(* the session holds user_id, user_role and user_name, the role is owner or
   driver, an owner has user_id 'owner', a driver has a well-formed id *)
SessionPasses(sess) ==
    /\ sess.user_id # "" /\ sess.user_role # "" /\ sess.user_name # ""
    /\ \/ sess.user_role = "owner" /\ sess.user_id = "owner"
       \/ sess.user_role = "driver" /\ ObjectIdOk(sess.user_id)

(* C27: a request to a route that is not public reaches its handler only
   with a session that holds user_id and passes validate_session; with any
   other session it is answered by the redirect to login, the session is
   cleared if it held user_id and failed the validation (and left as it is if
   it held no user_id), and no collection and no cache changes. *)
C27_HandlerOnlyWithValidSession ==
    [][ProtectedRequest =>
          IF SessionPasses(session)
          THEN lastOp'.outcome # "login_redirect"
          ELSE /\ lastOp'.outcome = "login_redirect"
               /\ session' = IF HasUserId(session) THEN NoSession ELSE session
               /\ UNCHANGED <<trips, units, settings, cache, hist>>]_vars

(* a request with a session that held an id that is no ObjectId was sent to
   login and lost its session, with a trip in the store *)
C27_Witness ==
    /\ lastOp.op \in ProtectedEndpoints
    /\ lastOp.outcome = "login_redirect"
    /\ lastOp.actor = "bogus"
    /\ session = NoSession
    /\ Len(trips) = 1

(* C28: a request to /check-auth is answered 200 when the session holds
   user_id and passes validate_session, and 401 when it does not. *)
C28_CheckAuthAnswers ==
    [][lastOp'.op = "check_auth" =>
          lastOp'.outcome = IF SessionPasses(session) THEN "200" ELSE "401"]_vars

====
